---- MODULE Spec2Model ----
(***************************************************************************)
(* Model of the prompt Version Store (backend/src/git_manager.py,          *)
(* PromptGitManager) and of the Workflow Execution Engine                  *)
(* (backend/src/workflow_executor.py, WorkflowExecutor).                   *)
(*                                                                         *)
(* The store is one shared git repository: a working directory (files), a  *)
(* staging area (index) and a linear list of commits, each commit holding  *)
(* the snapshot of the whole index.  A revision hash is modelled by the    *)
(* position of the commit in the list (1 is the bootstrap commit).         *)
(* Text is a sequence of characters so that the newline translation of     *)
(* Python's text mode is something the model computes.                     *)
(***************************************************************************)
EXTENDS Integers, Sequences, FiniteSets, TLC

\* ------------------------------------------------------------------ bounds
MaxCalls == 3           \* calls that write: those that commit and those that raise
MaxSteps == 3           \* length of a workspace's stored prompt sequence
MaxReads == 2           \* reads made while saves are in flight
MaxShared == 2          \* steps of a workflow run by two calls at once

\* --------------------------------------------------------------- universe
Ids == {1, 2}                         \* prompt ids
Chars == {"a", "CR", "LF"}            \* CR = '\r', LF = '\n'
Authors == {"alice"}
Messages == {"m"}

\* the texts handed to save_prompt: "", "a" and "\r\n"
Contents == {<<>>, <<"a">>, <<"CR", "LF">>}

None == <<>>                          \* no file / no entry at a path
Some(c) == <<c>>                      \* a file / blob holding text c

NoRev == 0                            \* commit_hash=None

VARIABLES
    files,      \* working directory: prompts/<id>.md, None or Some(text)
    index,      \* staging area of the repository, per path
    commits,    \* the commit list, oldest first; commits[h] has hash h
    made,       \* per commit: the call that created it (returned hash h)
    nfail,      \* calls so far that raised part-way
    threads     \* request threads inside save_prompt: position and arguments

storeVars == <<files, index, commits, made, nfail, threads>>

\* ---------------------------------------------------------- text helpers
RECURSIVE Norm(_)
\* universal-newlines translation done when Python reads in text mode:
\* "\r\n" and a lone "\r" both become "\n"
Norm(s) ==
    IF s = <<>> THEN <<>>
    ELSE IF Head(s) = "CR"
         THEN IF Len(s) >= 2 /\ s[2] = "LF"
              THEN <<"LF">> \o Norm(SubSeq(s, 3, Len(s)))
              ELSE <<"LF">> \o Norm(Tail(s))
         ELSE <<Head(s)>> \o Norm(Tail(s))

ProperPrefixes(s) == {SubSeq(s, 1, n) : n \in 0..(Len(s) - 1)}

Range(f) == {f[k] : k \in DOMAIN f}

\* ------------------------------------------------------------ git helpers
EmptyTree == [i \in Ids |-> None]

Head_ == Len(commits)

TreeAt(h) == commits[h].tree

ValidRev(h) == h \in 1..Len(commits)

ParentTree(h) == IF h = 1 THEN EmptyTree ELSE commits[h - 1].tree

\* write_text: the file now holds exactly the text
WriteText(fs, id, content) == [fs EXCEPT ![id] = Some(content)]

\* index.add([path]): stage the blob of the file in the working directory
IndexAdd(ix, fs, id) == [ix EXCEPT ![id] = fs[id]]

\* index.remove([path]): git rm --cached
IndexRemove(ix, id) == [ix EXCEPT ![id] = None]

\* index.commit(message, author): a commit of the whole index, made even
\* when the tree equals the parent's tree
IndexCommit(cs, ix, author, message) ==
    Append(cs, [tree |-> ix, author |-> author, message |-> message])

\* ------------------------------------------------------------- operations
Ok(c) == [status |-> "ok", val |-> c]
NotFound == [status |-> "NotFound", val |-> <<>>]
Failure == [status |-> "Exception", val |-> <<>>]

\* a read that ignores the requested revision and reads the working file
get_prompt_content_worktree(id, commit_hash) ==
    IF commit_hash # NoRev /\ ~ValidRev(commit_hash) THEN Failure
    ELSE IF files[id] = None THEN NotFound
    ELSE Ok(Norm(files[id][1]))

get_prompt_content(id, commit_hash) ==
    IF commit_hash # NoRev
    THEN IF ~ValidRev(commit_hash) THEN Failure
         ELSE IF TreeAt(commit_hash)[id] = None THEN NotFound
         ELSE Ok(Norm(TreeAt(commit_hash)[id][1]))
    ELSE IF files[id] = None THEN NotFound
         ELSE Ok(Norm(files[id][1]))

file_exists(id) == files[id] # None

\* git log -<n> -- prompts/<id>.md : newest first, only the commits whose
\* blob at the path differs from the parent's
RECURSIVE GitLog(_, _, _)
GitLog(id, h, n) ==
    IF h = 0 \/ n = 0 THEN <<>>
    ELSE IF TreeAt(h)[id] # ParentTree(h)[id]
         THEN <<h>> \o GitLog(id, h - 1, n - 1)
         ELSE GitLog(id, h - 1, n)

HistoryEntry(h) ==
    [commit_hash |-> h, author |-> commits[h].author,
     message |-> commits[h].message]

get_version_history(id, max_count) ==
    IF files[id] = None THEN <<>>
    ELSE LET log == GitLog(id, Head_, max_count)
         IN  [k \in 1..Len(log) |-> HistoryEntry(log[k])]

DefaultMaxCount == 50

history(id) == get_version_history(id, DefaultMaxCount)

Hashes(hist) == [k \in 1..Len(hist) |-> hist[k].commit_hash]

\* a diff of the whole tree, without the path restriction
GitDiff_allpaths(a, b, paths) ==
    {[path |-> p, from |-> TreeAt(a)[p], to |-> TreeAt(b)[p]] :
        p \in {q \in Ids : TreeAt(a)[q] # TreeAt(b)[q]}}

\* git diff <a> <b> -- <paths>: one entry per path whose blob differs
GitDiff(a, b, paths) ==
    {[path |-> p, from |-> TreeAt(a)[p], to |-> TreeAt(b)[p]] :
        p \in {q \in paths : TreeAt(a)[q] # TreeAt(b)[q]}}

NoDifferences == [text |-> "No differences found", changes |-> {}]

get_diff(id, from_commit, to_commit) ==
    LET out == IF ValidRev(from_commit) /\ ValidRev(to_commit)
               THEN GitDiff(from_commit, to_commit, {id})
               ELSE {}
    IN  IF out = {} THEN NoDifferences
        ELSE [text |-> "diff", changes |-> out]

\* ----------------------------------------------------------------- calls
\* calls so far that wrote to the repository: one commit each, or a raise
Written == (Len(commits) - 1) + nfail

FailPoints == {"none", "file", "stage", "commit"}

\* the body of save_prompt for one content; op is the entry point
SaveBody(op, id, content, author, message, fail) ==
    /\ Written < MaxCalls
    /\ nfail' = IF fail = "none" THEN nfail ELSE nfail + 1
    /\ \/ /\ fail = "file"
          /\ \E p \in ProperPrefixes(content) :
                files' = [files EXCEPT ![id] = Some(p)]
          /\ UNCHANGED <<index, commits, made>>
       \/ /\ fail = "stage"
          /\ files' = WriteText(files, id, content)
          /\ UNCHANGED <<index, commits, made>>
       \/ /\ fail = "commit"
          /\ files' = WriteText(files, id, content)
          /\ index' = IndexAdd(index, files', id)
          /\ UNCHANGED <<commits, made>>
       \/ /\ fail = "none"
          /\ files' = WriteText(files, id, content)
          /\ index' = IndexAdd(index, files', id)
          /\ commits' = IndexCommit(commits, index', author, message)
          /\ made' = Append(made, [op |-> op, id |-> id, content |-> content])

SavePrompt(id, content, author, message, fail) ==
    SaveBody("save", id, content, author, message, fail)

\* a rollback that resets the branch to the target instead of committing
RollbackPrompt_reset(id, target, author, message, fail) ==
    LET r == get_prompt_content(id, target)
    IN  /\ fail = "none"
        /\ IF r.status # "ok"
           THEN UNCHANGED <<files, index, commits, made, nfail>>
           ELSE /\ commits' = SubSeq(commits, 1, target)
                /\ made' = SubSeq(made, 1, target)
                /\ files' = [files EXCEPT ![id] = TreeAt(target)[id]]
                /\ index' = TreeAt(target)
                /\ UNCHANGED nfail

RollbackPrompt(id, target, author, message, fail) ==
    LET r == get_prompt_content(id, target)
    IN  IF r.status # "ok"
        THEN /\ fail = "none"
             /\ UNCHANGED <<files, index, commits, made, nfail>>
        ELSE SaveBody("rollback", id, r.val, author, message, fail)

DeletePromptFile(id, author, message, fail) ==
    IF files[id] = None
    THEN /\ fail = "none"
         /\ UNCHANGED <<files, index, commits, made, nfail>>
    ELSE /\ Written < MaxCalls
         /\ nfail' = IF fail = "none" THEN nfail ELSE nfail + 1
         /\ \/ /\ fail = "file"
               /\ UNCHANGED <<files, index, commits, made>>
            \/ /\ fail = "stage" \/ (fail = "none" /\ index[id] = None)
               /\ files' = [files EXCEPT ![id] = None]
               /\ UNCHANGED <<index, commits, made>>
            \/ /\ fail = "commit" /\ index[id] # None
               /\ files' = [files EXCEPT ![id] = None]
               /\ index' = IndexRemove(index, id)
               /\ UNCHANGED <<commits, made>>
            \/ /\ fail = "none" /\ index[id] # None
               /\ files' = [files EXCEPT ![id] = None]
               /\ index' = IndexRemove(index, id)
               /\ commits' = IndexCommit(commits, index', author, message)
               /\ made' = Append(made, [op |-> "delete", id |-> id, content |-> <<>>])

\* =========================================================================
\* Workflow Execution Engine (workflow_executor.py, WorkflowExecutor)
\* =========================================================================
\* Text of prompts, inputs and provider outputs is a sequence of tokens; a
\* placeholder is one token, so 'x in s' and s.replace(x, y) are computed.

VARIABLES
    prompts,              \* PromptTemplate rows: None (no row) or Some(content)
    prompt_sequence,      \* WorkflowSpace.prompt_sequence, the stored id list
    prompt_associations,  \* associated prompt ids, ordered by order_index
    executor,             \* constructor arguments: the clients and the git manager
    pc,                   \* position of execute(): idle, loop, aggregate, done
    call,                 \* arguments of the running execute()
    sequence,             \* local prompt_sequence: the resolved prompt ids
    step_number,          \* loop variable (1-based)
    current_input,        \* local current_input: Some(text), or None
    results,              \* self.results
    outcome,              \* None, or Some(the returned dictionary)
    fetched,              \* log: every _get_prompt_content call and its result
    dispatched,           \* log: every provider call and what the provider did
    events                \* log: every progress_callback invocation

execVars == <<prompts, prompt_sequence, prompt_associations, executor, pc, call,
              sequence, step_number, current_input, results, outcome,
              fetched, dispatched, events>>

\* ------------------------------------------------------------ the universe
PromptText1 == <<"Summarize:", " ", "{{input}}">>      \* a template with a placeholder
PromptFile2 == <<"Translate", " ", "now.">>            \* working copy of prompt 2
PromptRow2 == <<"Translate.">>                         \* database content of prompt 2

InitialInputs == {<<>>, <<"hello">>}
Models == {"gemini-2.5-flash", "local-model"}
GeminiNamed == {"gemini-2.5-flash"}      \* the models whose name starts with "gemini-"

\* what a provider call can do: return text, return no text (None), raise
Responses == {Some(<<"out">>), None}
ProviderOutcomes ==
    {[raises |-> FALSE, val |-> r] : r \in Responses} \cup {[raises |-> TRUE, val |-> None]}

\* the executors the routes build: which clients were configured, which
\* models each custom client declares, whether the git manager came up
Constructions ==
    { [gemini_client |-> TRUE,  openrouter_client |-> TRUE,
       custom_clients |-> <<{"local-model"}>>, git_manager |-> TRUE],
      [gemini_client |-> FALSE, openrouter_client |-> FALSE,
       custom_clients |-> <<>>, git_manager |-> TRUE],
      [gemini_client |-> FALSE, openrouter_client |-> TRUE,
       custom_clients |-> <<>>, git_manager |-> FALSE],
      [gemini_client |-> TRUE,  openrouter_client |-> FALSE,
       custom_clients |-> <<{}, {"local-model"}, {"local-model"}>>,
       git_manager |-> TRUE] }

\* prompt 2 in the store and in the database: saved in both; only in the
\* database; a row with empty content and no file (the column only forbids
\* NULL, and the rollback route copies whatever the store returns); a file
\* whose row is gone; an empty working copy beside a row with content
Prompt2States ==
    { [file |-> Some(PromptFile2), row |-> Some(PromptRow2)],
      [file |-> None,              row |-> Some(PromptRow2)],
      [file |-> None,              row |-> Some(<<>>)],
      [file |-> Some(PromptFile2), row |-> None],
      [file |-> Some(<<>>),        row |-> Some(PromptRow2)] }

RECURSIVE SeqsUpTo(_, _)
SeqsUpTo(S, n) ==
    IF n = 0 THEN {<<>>}
    ELSE LET shorter == SeqsUpTo(S, n - 1)
         IN shorter \cup {Append(s, x) : s \in {t \in shorter : Len(t) = n - 1}, x \in S}

\* ------------------------------------------------------------------ helpers
Truthy(v) == v # None /\ v[1] # <<>>          \* Python truth of an Optional[str]

Blank(t) == \A k \in DOMAIN t : t[k] = " "    \* not t.strip()

RECURSIVE Replace(_, _, _)
\* str.replace(tok, by)
Replace(t, tok, by) ==
    IF t = <<>> THEN <<>>
    ELSE (IF Head(t) = tok THEN by ELSE <<Head(t)>>) \o Replace(Tail(t), tok, by)

RECURSIVE Filter(_, _)
Filter(s, keep) ==
    IF s = <<>> THEN <<>>
    ELSE (IF Head(s) \in keep THEN <<Head(s)>> ELSE <<>>) \o Filter(Tail(s), keep)

\* WorkflowSpace.get_prompt_sequence_details: the ids used (the stored list,
\* or the associations when the stored list is empty) ...
SequenceIds ==
    IF prompt_sequence = <<>> /\ prompt_associations # <<>>
    THEN prompt_associations ELSE prompt_sequence

\* ... without the ids that are not associated or have no row
get_prompt_sequence_details ==
    Filter(SequenceIds, {p \in Ids : p \in Range(prompt_associations) /\ prompts[p] # None})

\* _get_prompt_content: the working copy if git answers with truthy text,
\* else the row's content if truthy, else None
fetch_prompt_content(prompt_id) ==
    LET git == IF executor.git_manager THEN get_prompt_content(prompt_id, NoRev) ELSE Failure
    IN IF git.status = "ok" /\ git.val # <<>> THEN Some(git.val)
       ELSE IF Truthy(prompts[prompt_id]) THEN prompts[prompt_id]
       ELSE None

HasPlaceholder(t) ==
    \E k \in DOMAIN t :
        t[k] \in {"{{input}}", "{{INPUT}}", "{{previous_output}}", "{{PREVIOUS_OUTPUT}}"}

format_prompt_with_input(prompt_content, input_text) ==
    IF ~Truthy(input_text) \/ Blank(input_text[1]) THEN prompt_content
    ELSE LET inp == input_text[1]
         IN IF HasPlaceholder(prompt_content)
            THEN Replace(Replace(Replace(Replace(prompt_content,
                        "{{input}}", inp), "{{previous_output}}", inp),
                        "{{INPUT}}", inp), "{{PREVIOUS_OUTPUT}}", inp)
            ELSE <<"Previous output:", "LF", "---", "LF">> \o inp
                 \o <<"LF", "---", "LF", "LF", "Current task:", "LF">> \o prompt_content

Declares(model) == {k \in DOMAIN executor.custom_clients : model \in executor.custom_clients[k]}

determine_client_type(model) ==
    IF model \in GeminiNamed THEN "gemini"
    ELSE IF Declares(model) # {} THEN "custom"
    ELSE "openrouter"

\* _execute_single_prompt up to the provider call: the client that gets the
\* call, or the exception raised before any call
select_client(model) ==
    LET t == determine_client_type(model)
    IN IF t = "gemini"
       THEN IF executor.gemini_client THEN [client |-> "gemini", error |-> None]
            ELSE [client |-> "", error |-> Some("Gemini client not available. Please configure API key.")]
       ELSE IF t = "openrouter"
       THEN IF executor.openrouter_client THEN [client |-> "openrouter", error |-> None]
            ELSE [client |-> "", error |-> Some("OpenRouter client not available. Please configure API key.")]
       ELSE [client |-> "custom", error |-> None]

CustomNames == <<"custom1", "custom2", "custom3">>

\* the custom clients that list the model, in dictionary order
CustomOrder(model) ==
    Filter([k \in DOMAIN executor.custom_clients |-> k], Declares(model))

\* the provider calls one step makes with the formatted prompt: one call to
\* the gemini or openrouter client; for custom clients the loop of
\* _execute_single_prompt, which swallows a raising call and goes on to the
\* next client that lists the model
ProviderCalls(sel, provider, step, prompt) ==
    IF sel.client # "custom"
    THEN <<[step |-> step, client |-> sel.client, prompt |-> prompt,
            raises |-> provider.raises, val |-> provider.val]>>
    ELSE LET ks == CustomOrder(call.model)
         IN IF provider.raises
            THEN [i \in 1..Len(ks) |->
                    [step |-> step, client |-> CustomNames[ks[i]], prompt |-> prompt,
                     raises |-> TRUE, val |-> None]]
            ELSE <<[step |-> step, client |-> CustomNames[ks[1]], prompt |-> prompt,
                    raises |-> FALSE, val |-> provider.val]>>

InputShown(inp) == IF Truthy(inp) THEN inp ELSE Some(<<"(no input)">>)

\* the dictionary appended for a successful step
StepResult(step, prompt_id, inp, output) ==
    [step |-> step, prompt_id |-> prompt_id, input |-> InputShown(inp),
     output |-> output, error |-> None]

\* an error result that carries no error
ErrorResult_silent(step, prompt_id, inp, error_message) ==
    [step |-> step, prompt_id |-> prompt_id, input |-> InputShown(inp),
     output |-> None, error |-> None]

\* _add_error_result
ErrorResult(step, prompt_id, inp, error_message) ==
    [step |-> step, prompt_id |-> prompt_id, input |-> InputShown(inp),
     output |-> None, error |-> Some(error_message)]

\* a callback hook that reports the newest event first
Emit_prepends(evs, event_type, step) ==
    IF call.progress_callback THEN <<[type |-> event_type, step |-> step]>> \o evs ELSE evs

\* progress_callback(event_type, step_number, data), when one was supplied
Emit(evs, event_type, step) ==
    IF call.progress_callback THEN Append(evs, [type |-> event_type, step |-> step]) ELSE evs

successful_results(rs) == Filter(rs, {r \in Range(rs) : r.error = None})

\* an aggregate that reports the output of the last step result, errored or not
final_output_last(rs) ==
    IF rs # <<>> THEN rs[Len(rs)].output ELSE Some(<<>>)

final_output(rs) ==
    LET ok == successful_results(rs)
    IN IF ok # <<>> THEN ok[Len(ok)].output ELSE Some(<<>>)

\* the for loop is left after the last prompt, and by the break taken when
\* a step failed and stop_on_error is set
LoopExit_nobreak(failed) == step_number = Len(sequence)

LoopExit(failed) == (failed /\ call.stop_on_error) \/ step_number = Len(sequence)

\* ------------------------------------------------------------------ actions
\* an execute() whose loop starts without the initial input
ExecuteBegin_noinput(initial_input, model, stop_on_error, progress_callback) ==
    /\ pc = "idle"
    /\ call' = [initial_input |-> initial_input, model |-> model,
                stop_on_error |-> stop_on_error, progress_callback |-> progress_callback]
    /\ results' = <<>>
    /\ prompt_sequence' = SequenceIds
    /\ sequence' = get_prompt_sequence_details
    /\ IF sequence' = <<>>
       THEN /\ pc' = "done"
            /\ outcome' = Some([success |-> FALSE, error |-> Some("No prompts in sequence"),
                                results |-> <<>>, final_output |-> Some(<<>>)])
            /\ UNCHANGED <<step_number, current_input>>
       ELSE /\ pc' = "loop"
            /\ step_number' = 1
            /\ current_input' = Some(<<>>)
            /\ outcome' = None
    /\ UNCHANGED <<prompts, prompt_associations, executor, fetched, dispatched, events>>
    /\ UNCHANGED storeVars

\* execute(), up to the for loop
ExecuteBegin(initial_input, model, stop_on_error, progress_callback) ==
    /\ pc = "idle"
    /\ call' = [initial_input |-> initial_input, model |-> model,
                stop_on_error |-> stop_on_error, progress_callback |-> progress_callback]
    /\ results' = <<>>
    /\ prompt_sequence' = SequenceIds
    /\ sequence' = get_prompt_sequence_details
    /\ IF sequence' = <<>>
       THEN /\ pc' = "done"
            /\ outcome' = Some([success |-> FALSE, error |-> Some("No prompts in sequence"),
                                results |-> <<>>, final_output |-> Some(<<>>)])
            /\ UNCHANGED <<step_number, current_input>>
       ELSE /\ pc' = "loop"
            /\ step_number' = 1
            /\ current_input' = Some(initial_input)
            /\ outcome' = None
    /\ UNCHANGED <<prompts, prompt_associations, executor, fetched, dispatched, events>>
    /\ UNCHANGED storeVars

\* a failed step that throws the chained input away
StepFails_resets(error_message) ==
    /\ results' = Append(results,
            ErrorResult(step_number, sequence[step_number], current_input, error_message))
    /\ events' = Emit(Emit(events, "start", step_number), "error", step_number)
    /\ current_input' = Some(call.initial_input)
    /\ pc' = IF LoopExit(TRUE) THEN "aggregate" ELSE "loop"
    /\ step_number' = IF LoopExit(TRUE) THEN step_number ELSE step_number + 1

\* execute() when resolving the sequence raises (the database query fails):
\* the outer except returns an unsuccessful outcome
ExecuteUnexpected(initial_input, model, stop_on_error, progress_callback) ==
    /\ pc = "idle"
    /\ call' = [initial_input |-> initial_input, model |-> model,
                stop_on_error |-> stop_on_error, progress_callback |-> progress_callback]
    /\ results' = <<>>
    /\ pc' = "done"
    /\ outcome' = Some([success |-> FALSE, error |-> Some("unexpected error"),
                        results |-> results', final_output |-> Some(<<>>)])
    /\ UNCHANGED <<prompts, prompt_sequence, prompt_associations, executor, sequence,
                   step_number, current_input, fetched, dispatched, events>>
    /\ UNCHANGED storeVars

\* what one iteration does when the step fails with error_message
StepFails(error_message) ==
    /\ results' = Append(results,
            ErrorResult(step_number, sequence[step_number], current_input, error_message))
    /\ events' = Emit(Emit(events, "start", step_number), "error", step_number)
    /\ current_input' = current_input
    /\ pc' = IF LoopExit(TRUE) THEN "aggregate" ELSE "loop"
    /\ step_number' = IF LoopExit(TRUE) THEN step_number ELSE step_number + 1

\* one iteration of the for loop; provider is what the provider does if called
ExecuteStep(provider) ==
    /\ pc = "loop"
    /\ LET prompt_id == sequence[step_number]
           prompt_content == fetch_prompt_content(prompt_id)
       IN /\ fetched' = Append(fetched, [step |-> step_number, prompt_id |-> prompt_id,
                                         content |-> prompt_content])
          /\ IF prompt_content = None
             THEN /\ StepFails("content not found")
                  /\ UNCHANGED dispatched
             ELSE LET formatted_prompt ==
                          format_prompt_with_input(prompt_content[1], current_input)
                      sel == select_client(call.model)
                  IN IF sel.error # None
                     THEN /\ StepFails(sel.error[1])
                          /\ UNCHANGED dispatched
                     ELSE /\ dispatched' = dispatched \o
                                  ProviderCalls(sel, provider, step_number, formatted_prompt)
                          /\ IF provider.raises
                             THEN StepFails("API error")
                             ELSE /\ results' = Append(results,
                                        StepResult(step_number, prompt_id,
                                                   current_input, provider.val))
                                  /\ events' = Emit(Emit(events, "start", step_number),
                                                    "complete", step_number)
                                  /\ current_input' = provider.val
                                  /\ pc' = IF LoopExit(FALSE) THEN "aggregate" ELSE "loop"
                                  /\ step_number' = IF LoopExit(FALSE) THEN step_number
                                                    ELSE step_number + 1
    /\ UNCHANGED <<prompts, prompt_sequence, prompt_associations, executor, call,
                   sequence, outcome>>
    /\ UNCHANGED storeVars

\* the places of one iteration where the progress callback can raise: the
\* 'start' call before the try, the call made inside the try after the step's
\* result is appended ('complete', or 'error' when no content was found),
\* and the 'error' call of the except clause
RaisePoints == {"start", "finish", "handler"}

\* the outer except of execute(): what was appended so far is returned
UnexpectedOutcome(rs) ==
    Some([success |-> FALSE, error |-> Some("callback error"),
          results |-> rs, final_output |-> Some(<<>>)])

\* one iteration of the for loop in which the progress callback raises at the
\* places in cb
ExecuteStepRaising(provider, cb) ==
    /\ pc = "loop"
    /\ call.progress_callback
    /\ cb # {}
    /\ LET prompt_id == sequence[step_number]
           prompt_content == fetch_prompt_content(prompt_id)
           sel == select_client(call.model)
           called == prompt_content # None /\ sel.error = None
           returned == called /\ ~provider.raises
           finish_reached == prompt_content = None \/ returned
           started == Emit(events, "start", step_number)
           \* self.results and the events when the try block is left
           tried == IF prompt_content = None
                    THEN Append(results, ErrorResult(step_number, prompt_id, current_input,
                                                     "content not found"))
                    ELSE IF returned
                    THEN Append(results, StepResult(step_number, prompt_id,
                                                    current_input, provider.val))
                    ELSE results
           tried_events == IF prompt_content = None THEN Emit(started, "error", step_number)
                           ELSE IF returned THEN Emit(started, "complete", step_number)
                           ELSE started
           \* the except clause: _add_error_result, then the 'error' call
           error_msg == IF "finish" \in cb THEN "callback error"
                        ELSE IF sel.error # None THEN sel.error[1] ELSE "API error"
           handled == Append(tried, ErrorResult(step_number, prompt_id, current_input,
                                                error_msg))
           handled_events == Emit(tried_events, "error", step_number)
       IN IF "start" \in cb
          THEN /\ cb = {"start"}
               /\ events' = started
               /\ pc' = "done"
               /\ outcome' = UnexpectedOutcome(results)
               /\ UNCHANGED <<results, fetched, dispatched, current_input, step_number>>
          ELSE /\ "finish" \in cb => finish_reached
               /\ "finish" \notin cb => ~finish_reached
               /\ fetched' = Append(fetched, [step |-> step_number, prompt_id |-> prompt_id,
                                              content |-> prompt_content])
               /\ dispatched' = IF called
                                THEN dispatched \o ProviderCalls(sel, provider, step_number,
                                        format_prompt_with_input(prompt_content[1], current_input))
                                ELSE dispatched
               /\ results' = handled
               /\ events' = handled_events
               /\ current_input' = current_input
               /\ IF "handler" \in cb
                  THEN /\ pc' = "done"
                       /\ outcome' = UnexpectedOutcome(handled)
                       /\ UNCHANGED step_number
                  ELSE /\ pc' = IF LoopExit(TRUE) THEN "aggregate" ELSE "loop"
                       /\ step_number' = IF LoopExit(TRUE) THEN step_number
                                         ELSE step_number + 1
                       /\ UNCHANGED outcome
    /\ UNCHANGED <<prompts, prompt_sequence, prompt_associations, executor, call, sequence>>
    /\ UNCHANGED storeVars

\* execute(), after the for loop: the aggregate outcome
ExecuteFinish ==
    /\ pc = "aggregate"
    /\ pc' = "done"
    /\ outcome' = Some([success |-> Len(successful_results(results)) = Len(sequence),
                        error |-> None,
                        results |-> results,
                        final_output |-> final_output(results)])
    /\ UNCHANGED <<prompts, prompt_sequence, prompt_associations, executor, call,
                   sequence, step_number, current_input, results,
                   fetched, dispatched, events>>
    /\ UNCHANGED storeVars

\* no execution is running and none has run
ExecIdle ==
    /\ pc = "idle"
    /\ call = [initial_input |-> <<>>, model |-> "gemini-2.5-flash",
               stop_on_error |-> TRUE, progress_callback |-> FALSE]
    /\ sequence = <<>>
    /\ step_number = 0
    /\ current_input = None
    /\ results = <<>>
    /\ outcome = None
    /\ fetched = <<>>
    /\ dispatched = <<>>
    /\ events = <<>>

\* ------------------------------------------------ concurrent save_prompt
\* The server runs threaded (main.py: app.run(threaded=True)) and the routes
\* share one PromptGitManager; save_prompt takes no lock.  A thread inside
\* save_prompt goes through: open the file for writing (which truncates it),
\* write the content, index.add, index.commit.
Writers == {"t1", "t2"}

AuthorOf(t) == IF t = "t1" THEN "alice" ELSE "bob"

MessageOf(t) == IF t = "t1" THEN "m1" ELSE "m2"

ConcContents == {<<"a">>, <<"b", "b">>}

IdleThreads ==
    [t \in Writers |-> [pc |-> "idle", id |-> 0, content |-> <<>>, ret |-> 0]]

\* a write at offset 0 over what the file holds by now
Overlay(old, new) == new \o SubSeq(old, Len(new) + 1, Len(old))

\* save_prompt(prompt_id, content, ...) is entered
SaveEnter(t, id, content) ==
    /\ threads[t].pc = "idle"
    /\ threads' = [threads EXCEPT ![t] = [pc |-> "open", id |-> id, content |-> content,
                                          ret |-> 0]]
    /\ UNCHANGED <<files, index, commits, made, nfail>>

\* write_text, first half: open(path, 'w') truncates the file
SaveOpen(t) ==
    /\ threads[t].pc = "open"
    /\ files' = WriteText(files, threads[t].id, <<>>)
    /\ threads' = [threads EXCEPT ![t].pc = "write"]
    /\ UNCHANGED <<index, commits, made, nfail>>

\* write_text, second half: the content is written at the thread's offset 0
SaveWrite(t) ==
    /\ threads[t].pc = "write"
    /\ files' = WriteText(files, threads[t].id,
                          Overlay(files[threads[t].id][1], threads[t].content))
    /\ threads' = [threads EXCEPT ![t].pc = "add"]
    /\ UNCHANGED <<index, commits, made, nfail>>

\* index.add stages what the file holds now
SaveAdd(t) ==
    /\ threads[t].pc = "add"
    /\ index' = IndexAdd(index, files, threads[t].id)
    /\ threads' = [threads EXCEPT ![t].pc = "commit"]
    /\ UNCHANGED <<files, commits, made, nfail>>

\* index.commit commits the index as it is now; its hash is returned
SaveCommit(t) ==
    /\ threads[t].pc = "commit"
    /\ commits' = IndexCommit(commits, index, AuthorOf(t), MessageOf(t))
    /\ made' = Append(made, [op |-> "save", id |-> threads[t].id,
                             content |-> threads[t].content])
    /\ threads' = [threads EXCEPT ![t].pc = "done", ![t].ret = Len(commits')]
    /\ UNCHANGED <<files, index, nfail>>

\* ------------------------------------------------------- specifications
Bootstrap == [tree |-> EmptyTree, author |-> "AskHole System",
              message |-> "Initial commit: Initialize prompts repository"]

\* __init__ / _initialize_repo on a fresh root: the bootstrap commit holds
\* README.md only, no prompt path
StoreInit ==
    /\ files = EmptyTree
    /\ index = EmptyTree
    /\ commits = <<Bootstrap>>
    /\ made = <<[op |-> "init", id |-> 0, content |-> <<>>]>>
    /\ nfail = 0
    /\ threads = IdleThreads

\* the store alone: no workspace, no execution
Init ==
    /\ StoreInit
    /\ prompts = [i \in Ids |-> None]
    /\ prompt_sequence = <<>>
    /\ prompt_associations = <<>>
    /\ executor = [gemini_client |-> FALSE, openrouter_client |-> FALSE,
                   custom_clients |-> <<>>, git_manager |-> TRUE]
    /\ ExecIdle

Save ==
    /\ \E id \in Ids, c \in Contents, a \in Authors, m \in Messages, f \in FailPoints :
            SavePrompt(id, c, a, m, f)
    /\ UNCHANGED <<threads, execVars>>

Rollback ==
    /\ \E id \in Ids, t \in 1..(Len(commits) + 1), a \in Authors, m \in Messages,
          f \in FailPoints :
            RollbackPrompt(id, t, a, m, f)
    /\ UNCHANGED <<threads, execVars>>

Delete ==
    /\ \E id \in Ids, a \in Authors, m \in Messages, f \in FailPoints :
            DeletePromptFile(id, a, m, f)
    /\ UNCHANGED <<threads, execVars>>

Next == Save \/ Rollback \/ Delete

\* get_prompt_content(prompt_id, commit_hash) called by a request; what the
\* latest read returned (or raised) is logged
ReadPrompt(id, commit_hash) ==
    /\ LET r == get_prompt_content(id, commit_hash)
       IN fetched' = <<[step |-> 0, prompt_id |-> id, rev |-> commit_hash,
                        status |-> r.status,
                        content |-> IF r.status = "ok" THEN Some(r.val) ELSE None]>>
    /\ UNCHANGED <<prompts, prompt_sequence, prompt_associations, executor, pc, call,
                   sequence, step_number, current_input, results, outcome,
                   dispatched, events>>
    /\ UNCHANGED storeVars

Read == \E id \in Ids, h \in {NoRev} \cup (1..(Len(commits) + 1)) : ReadPrompt(id, h)

vars == <<storeVars, execVars>>

Spec == Init /\ [][Next]_vars

\* the store with a read after the writing calls: any sequence of writing
\* calls, then one read of any prompt at any revision
StoreReadNext == (fetched = <<>> /\ Next) \/ (fetched = <<>> /\ Read)

StoreReadSpec == Init /\ [][StoreReadNext]_vars

\* the repository after the prompts of working directory fs were saved, in
\* id order, by the prompt routes (prompt 1 is always there)
SavedCommits(fs) ==
    <<Bootstrap, [tree |-> [EmptyTree EXCEPT ![1] = fs[1]], author |-> "alice", message |-> "m"]>>
    \o (IF fs[2] # None THEN <<[tree |-> fs, author |-> "alice", message |-> "m"]>> ELSE <<>>)

SavedMade(fs) ==
    <<[op |-> "init", id |-> 0, content |-> <<>>],
      [op |-> "save", id |-> 1, content |-> fs[1][1]]>>
    \o (IF fs[2] # None THEN <<[op |-> "save", id |-> 2, content |-> fs[2][1]]>> ELSE <<>>)

\* a workspace with prompts 1 and 2 associated and some stored sequence, the
\* prompts saved, an executor built by the execute route
ExecInit ==
    /\ \E p2 \in Prompt2States :
        /\ files = [i \in Ids |-> IF i = 1 THEN Some(PromptText1) ELSE p2.file]
        /\ prompts = [i \in Ids |-> IF i = 1 THEN Some(PromptText1) ELSE p2.row]
    /\ index = files
    /\ commits = SavedCommits(files)
    /\ made = SavedMade(files)
    /\ nfail = 0
    /\ threads = IdleThreads
    /\ prompt_associations = <<1, 2>>
    /\ prompt_sequence \in SeqsUpTo(Ids, MaxSteps)
    /\ executor \in Constructions
    /\ ExecIdle

Execute ==
    \E initial_input \in InitialInputs, model \in Models,
       stop_on_error \in BOOLEAN, progress_callback \in BOOLEAN :
        ExecuteBegin(initial_input, model, stop_on_error, progress_callback)

Step == \E provider \in ProviderOutcomes : ExecuteStep(provider)

Finish == ExecuteFinish

Unexpected ==
    \E initial_input \in InitialInputs, model \in Models,
       stop_on_error \in BOOLEAN, progress_callback \in BOOLEAN :
        ExecuteUnexpected(initial_input, model, stop_on_error, progress_callback)

ExecNext == Execute \/ Unexpected \/ Step \/ Finish

ExecSpec == ExecInit /\ [][ExecNext]_vars

\* two request threads, each saving once, on a fresh repository
ThreadEnter ==
    /\ \E t \in Writers, id \in Ids, c \in ConcContents : SaveEnter(t, id, c)
    /\ UNCHANGED execVars

ThreadOpen == (\E t \in Writers : SaveOpen(t)) /\ UNCHANGED execVars

ThreadWrite == (\E t \in Writers : SaveWrite(t)) /\ UNCHANGED execVars

ThreadAdd == (\E t \in Writers : SaveAdd(t)) /\ UNCHANGED execVars

ThreadCommit == (\E t \in Writers : SaveCommit(t)) /\ UNCHANGED execVars

ConcNext == ThreadEnter \/ ThreadOpen \/ ThreadWrite \/ ThreadAdd \/ ThreadCommit

ConcSpec == Init /\ [][ConcNext]_vars

\* a third request reads a prompt while the saves are in flight:
\* get_prompt_content(id) with no revision, as the executor's content fetch
\* calls it; what the read returned is logged
ReadDuring(id) ==
    /\ Len(fetched) < MaxReads
    /\ LET r == get_prompt_content(id, NoRev)
       IN fetched' = Append(fetched, [step |-> 0, prompt_id |-> id,
                                      content |-> IF r.status = "ok" THEN Some(r.val) ELSE None])
    /\ UNCHANGED <<prompts, prompt_sequence, prompt_associations, executor, pc, call,
                   sequence, step_number, current_input, results, outcome,
                   dispatched, events>>
    /\ UNCHANGED storeVars

ThreadRead == \E id \in Ids : ReadDuring(id)

ReadNext == ConcNext \/ ThreadRead

ReadSpec == Init /\ [][ReadNext]_vars

\* ------------------------------------- concurrent execute on one executor
\* Two request threads call execute() on the same WorkflowExecutor object.
\* step_number, current_input and the resolved sequence are locals of each
\* call; self.results is an attribute of the object.  own is the list of the
\* step results the call itself appended, ret the list it returned.
InputOf(t) == IF t = "t1" THEN <<"hello">> ELSE <<>>

IdleInvocations ==
    [t \in Writers |-> [pc |-> "idle", model |-> "", stop_on_error |-> FALSE,
                        sequence |-> <<>>, step_number |-> 0, current_input |-> None,
                        own |-> <<>>, ret |-> <<>>]]

\* execute(), up to the for loop: self.results = [] rebinds the attribute
InvokeBegin(t, model, stop_on_error) ==
    /\ threads[t].pc = "idle"
    /\ results' = <<>>
    /\ prompt_sequence' = SequenceIds
    /\ LET seq == get_prompt_sequence_details
       IN threads' = [threads EXCEPT ![t] =
            [pc |-> IF seq = <<>> THEN "done" ELSE "loop",
             model |-> model, stop_on_error |-> stop_on_error,
             sequence |-> seq, step_number |-> 1,
             current_input |-> Some(InputOf(t)), own |-> <<>>, ret |-> <<>>]]
    /\ UNCHANGED <<prompts, prompt_associations, executor, pc, call, sequence, step_number,
                   current_input, outcome, fetched, dispatched, events>>
    /\ UNCHANGED <<files, index, commits, made, nfail>>

\* one iteration of the for loop of thread t: the step's result is appended
\* to self.results as it is bound now
InvokeStep(t, provider) ==
    /\ threads[t].pc = "loop"
    /\ LET me == threads[t]
           prompt_id == me.sequence[me.step_number]
           prompt_content == fetch_prompt_content(prompt_id)
           sel == select_client(me.model)
           failed == prompt_content = None \/ sel.error # None \/ provider.raises
           result == IF prompt_content = None
                     THEN ErrorResult(me.step_number, prompt_id, me.current_input,
                                      "content not found")
                     ELSE IF sel.error # None
                     THEN ErrorResult(me.step_number, prompt_id, me.current_input,
                                      sel.error[1])
                     ELSE IF provider.raises
                     THEN ErrorResult(me.step_number, prompt_id, me.current_input,
                                      "API error")
                     ELSE StepResult(me.step_number, prompt_id, me.current_input,
                                     provider.val)
           exit == (failed /\ me.stop_on_error) \/ me.step_number = Len(me.sequence)
       IN /\ results' = Append(results, result)
          /\ threads' = [threads EXCEPT
                ![t].own = Append(me.own, result),
                ![t].current_input = IF failed THEN me.current_input ELSE provider.val,
                ![t].pc = IF exit THEN "aggregate" ELSE "loop",
                ![t].step_number = IF exit THEN me.step_number ELSE me.step_number + 1]
    /\ UNCHANGED <<prompts, prompt_sequence, prompt_associations, executor, pc, call,
                   sequence, step_number, current_input, outcome,
                   fetched, dispatched, events>>
    /\ UNCHANGED <<files, index, commits, made, nfail>>

\* execute(), after the loop: 'results': self.results
InvokeReturn(t) ==
    /\ threads[t].pc = "aggregate"
    /\ threads' = [threads EXCEPT ![t].pc = "done", ![t].ret = results]
    /\ UNCHANGED execVars
    /\ UNCHANGED <<files, index, commits, made, nfail>>

\* --------------------------------------------------- the streaming route
\* execute_workflow_stream.generate runs its own copy of the loop on the
\* executor's helpers.  Its locals: step_number, current_input,
\* results_list, and the completion event it sends last.
IdleStream ==
    [pc |-> "idle", step_number |-> 0, current_input |-> None,
     results_list |-> <<>>, completion |-> None]

\* generate(), up to the for loop, for the request the finished execute()
\* call served: same workspace, initial_input, model and stop_on_error
StreamBegin ==
    /\ pc = "done"
    /\ threads.pc = "idle"
    /\ prompt_sequence' = SequenceIds
    /\ threads' = IF get_prompt_sequence_details = <<>>
                  THEN [threads EXCEPT !.pc = "done"]
                  ELSE [threads EXCEPT !.pc = "loop", !.step_number = 1,
                                       !.current_input = Some(call.initial_input)]
    /\ UNCHANGED <<prompts, prompt_associations, executor, pc, call, sequence, step_number,
                   current_input, results, outcome, fetched, dispatched, events>>
    /\ UNCHANGED <<files, index, commits, made, nfail>>

\* one iteration of generate()'s loop.  After the content is fetched the
\* route calls executor._get_prompt_attachments, which WorkflowExecutor does
\* not define: the AttributeError is caught by the step's except clause, and
\* the format and provider calls that follow in the try block are never run
StreamStep ==
    /\ threads.pc = "loop"
    /\ LET prompt_id == get_prompt_sequence_details[threads.step_number]
           prompt_content == fetch_prompt_content(prompt_id)
           error_msg == IF prompt_content = None THEN "content not found"
                        ELSE "'WorkflowExecutor' object has no attribute '_get_prompt_attachments'"
           exit == call.stop_on_error
                   \/ threads.step_number = Len(get_prompt_sequence_details)
       IN threads' = [threads EXCEPT
            !.results_list = Append(@, ErrorResult(threads.step_number, prompt_id,
                                                   threads.current_input, error_msg)),
            !.pc = IF exit THEN "complete" ELSE "loop",
            !.step_number = IF exit THEN @ ELSE @ + 1]
    /\ UNCHANGED execVars
    /\ UNCHANGED <<files, index, commits, made, nfail>>

\* generate(), after the loop: the workflow_complete event
StreamFinish ==
    /\ threads.pc = "complete"
    /\ threads' = [threads EXCEPT
            !.pc = "done",
            !.completion = Some(
                [success |-> Len(successful_results(threads.results_list))
                                = Len(get_prompt_sequence_details),
                 results |-> threads.results_list,
                 final_output |-> final_output(threads.results_list),
                 completed_steps |-> Len(successful_results(threads.results_list)),
                 total_steps |-> Len(get_prompt_sequence_details)])]
    /\ UNCHANGED execVars
    /\ UNCHANGED <<files, index, commits, made, nfail>>

\* ------------------------------------------------ the workspace's editors
\* the orders a list of distinct ids can be put in
Orders(S) == {s \in SeqsUpTo(S, Cardinality(S)) :
                Len(s) = Cardinality(S) /\ Range(s) = S}

RECURSIVE RemoveFirst(_, _)
\* list.remove(x)
RemoveFirst(s, x) ==
    IF s = <<>> THEN <<>>
    ELSE IF Head(s) = x THEN Tail(s) ELSE <<Head(s)>> \o RemoveFirst(Tail(s), x)

\* add_prompt_to_workspace: the prompt must exist and not be associated yet;
\* the association gets the order_index of the request, or the last place
AddPrompt(prompt_id) ==
    /\ prompts[prompt_id] # None
    /\ prompt_id \notin Range(prompt_associations)
    /\ prompt_associations' \in Orders(Range(prompt_associations) \cup {prompt_id})
    /\ prompt_sequence' = IF prompt_id \notin Range(prompt_sequence)
                          THEN Append(prompt_sequence, prompt_id)
                          ELSE prompt_sequence

\* remove_prompt_from_workspace
RemovePrompt(prompt_id) ==
    /\ prompt_id \in Range(prompt_associations)
    /\ prompt_associations' = Filter(prompt_associations,
                                     Range(prompt_associations) \ {prompt_id})
    /\ prompt_sequence' = RemoveFirst(prompt_sequence, prompt_id)

\* reorder_prompts: order_index is rewritten for the listed ids that are
\* associated (the associations' new order follows the values written,
\* which the model leaves open), and the list is stored as it came
ReorderPrompts(prompt_ids) ==
    /\ prompt_ids # <<>>
    /\ prompt_associations' \in Orders(Range(prompt_associations))
    /\ prompt_sequence' = prompt_ids

EditFrame ==
    /\ UNCHANGED <<prompts, executor, pc, call, sequence, step_number, current_input,
                   results, outcome, fetched, dispatched, events>>
    /\ UNCHANGED storeVars

Add == (\E id \in Ids : AddPrompt(id)) /\ EditFrame

Remove == (\E id \in Ids : RemovePrompt(id)) /\ EditFrame

Reorder == (\E ids \in SeqsUpTo(Ids, MaxSteps) : ReorderPrompts(ids)) /\ EditFrame

\* a new workspace: no association, no stored sequence; each prompt row
\* exists or not
EditInit ==
    /\ StoreInit
    /\ prompts \in [Ids -> {Some(PromptText1), None}]
    /\ prompt_sequence = <<>>
    /\ prompt_associations = <<>>
    /\ executor = [gemini_client |-> FALSE, openrouter_client |-> FALSE,
                   custom_clients |-> <<>>, git_manager |-> TRUE]
    /\ ExecIdle

EditNext == Add \/ Remove \/ Reorder

EditSpec == EditInit /\ [][EditNext]_vars

\* ---------------------------------------------- formatting, input by input
\* templates of prompt 1: the placeholder spellings the code names, a
\* mixed-case spelling, two placeholders, and plain text
Templates ==
    { <<"Summarize:", " ", "{{input}}">>,
      <<"{{PREVIOUS_OUTPUT}}", " ", "shorter">>,
      <<"{{previous_output}}", " ", "and", " ", "{{input}}">>,
      <<"Summarize:", " ", "{{Input}}">>,
      <<"{{INPUT}}", " ", "{{Previous_Output}}">>,
      <<"Translate", " ", "to", " ", "French.">> }

\* inputs of the run: empty, a word, whitespace only, text naming a placeholder
FormatInputs ==
    { <<>>, <<"hello">>, <<" ">>, <<"see", " ", "{{previous_output}}">> }

\* a workspace holding prompt 1 alone, saved with some template, and an
\* executor with every client configured
FormatInit ==
    /\ \E t \in Templates :
        /\ files = [i \in Ids |-> IF i = 1 THEN Some(t) ELSE None]
        /\ prompts = [i \in Ids |-> IF i = 1 THEN Some(t) ELSE None]
    /\ index = files
    /\ commits = SavedCommits(files)
    /\ made = SavedMade(files)
    /\ nfail = 0
    /\ threads = IdleThreads
    /\ prompt_associations = <<1>>
    /\ prompt_sequence = <<1>>
    /\ executor = [gemini_client |-> TRUE, openrouter_client |-> TRUE,
                   custom_clients |-> <<{"local-model"}>>, git_manager |-> TRUE]
    /\ ExecIdle

FormatExecute ==
    \E initial_input \in FormatInputs, model \in Models,
       stop_on_error \in BOOLEAN, progress_callback \in BOOLEAN :
        ExecuteBegin(initial_input, model, stop_on_error, progress_callback)

FormatNext == FormatExecute \/ Step \/ Finish

FormatSpec == FormatInit /\ [][FormatNext]_vars

\* the executor object both calls use: every client configured
SharedExecutor ==
    [gemini_client |-> TRUE, openrouter_client |-> TRUE,
     custom_clients |-> <<{"local-model"}>>, git_manager |-> TRUE]

\* two executions on one executor object, over a workspace of up to
\* MaxShared steps
SharedInit ==
    /\ \E p2 \in Prompt2States :
        /\ files = [i \in Ids |-> IF i = 1 THEN Some(PromptText1) ELSE p2.file]
        /\ prompts = [i \in Ids |-> IF i = 1 THEN Some(PromptText1) ELSE p2.row]
    /\ index = files
    /\ commits = SavedCommits(files)
    /\ made = SavedMade(files)
    /\ nfail = 0
    /\ threads = IdleInvocations
    /\ prompt_associations = <<1, 2>>
    /\ prompt_sequence \in SeqsUpTo(Ids, MaxShared)
    /\ executor = SharedExecutor
    /\ ExecIdle

ModelOf(t) == IF t = "t1" THEN "gemini-2.5-flash" ELSE "local-model"

Invoke == \E t \in Writers, stop_on_error \in BOOLEAN :
            InvokeBegin(t, ModelOf(t), stop_on_error)

InvokeIterate == \E t \in Writers, provider \in ProviderOutcomes : InvokeStep(t, provider)

InvokeEnd == \E t \in Writers : InvokeReturn(t)

SharedNext == Invoke \/ InvokeIterate \/ InvokeEnd

SharedSpec == SharedInit /\ [][SharedNext]_vars

\* an execute() call, then the streaming route on the same request
StreamInit ==
    /\ \E p2 \in Prompt2States :
        /\ files = [i \in Ids |-> IF i = 1 THEN Some(PromptText1) ELSE p2.file]
        /\ prompts = [i \in Ids |-> IF i = 1 THEN Some(PromptText1) ELSE p2.row]
    /\ index = files
    /\ commits = SavedCommits(files)
    /\ made = SavedMade(files)
    /\ nfail = 0
    /\ threads = IdleStream
    /\ prompt_associations = <<1, 2>>
    /\ prompt_sequence \in SeqsUpTo(Ids, MaxSteps)
    /\ executor \in Constructions
    /\ ExecIdle

StreamNext == Execute \/ Step \/ Finish \/ StreamBegin \/ StreamStep \/ StreamFinish

StreamSpec == StreamInit /\ [][StreamNext]_vars

\* the executor with a progress callback that may raise
StepRaising ==
    \E provider \in ProviderOutcomes, cb \in SUBSET RaisePoints : ExecuteStepRaising(provider, cb)

CallbackNext == Execute \/ Unexpected \/ Step \/ StepRaising \/ Finish

CallbackSpec == ExecInit /\ [][CallbackNext]_vars

\* ------------------------------------------------- the calls, as observed
Revs == 1..Len(commits)

Made(op, id) ==
    /\ Len(commits') = Len(commits) + 1
    /\ made'[Len(commits')].op = op
    /\ made'[Len(commits')].id = id

SaveOk(id, c) ==
    /\ Made("save", id)
    /\ \E a \in Authors, m \in Messages : SavePrompt(id, c, a, m, "none")

SaveFailed(id, c) ==
    /\ nfail' = nfail + 1
    /\ \E a \in Authors, m \in Messages, f \in FailPoints \ {"none"} :
        SavePrompt(id, c, a, m, f)

RollbackOk(id, t) ==
    /\ made' # made
    /\ nfail' = nfail
    /\ get_prompt_content(id, t).status = "ok"
    /\ \E a \in Authors, m \in Messages : RollbackPrompt(id, t, a, m, "none")

DeleteOk(id) ==
    /\ Made("delete", id)
    /\ files[id] # None
    /\ index[id] # None
    /\ \E a \in Authors, m \in Messages : DeletePromptFile(id, a, m, "none")

CallOn(id) ==
    \/ \E c \in Contents, a \in Authors, m \in Messages, f \in FailPoints :
            SavePrompt(id, c, a, m, f)
    \/ \E t \in 1..(Len(commits) + 1), a \in Authors, m \in Messages, f \in FailPoints :
            RollbackPrompt(id, t, a, m, f)
    \/ \E a \in Authors, m \in Messages, f \in FailPoints :
            DeletePromptFile(id, a, m, f)

\* ------------------------------------------------------------------ claims

\* C1: read(id) with no revision, right after a successful
\* save(id, content), returns exactly content.
C1_RoundTrip ==
    [][\A id \in Ids, c \in Contents :
        SaveOk(id, c) => get_prompt_content(id, NoRev)' = Ok(c)]_vars

\* C2: after a successful rollback(id, r), read(id) equals what read(id, r)
\* returned before the rollback, and the rollback is a normal save: the
\* commit list is the old list plus one commit, no old commit is rewritten.
C2_RollbackReadsOld ==
    [][\A id \in Ids, t \in Revs :
        RollbackOk(id, t) =>
            /\ get_prompt_content(id, NoRev)' = get_prompt_content(id, t)
            /\ Len(commits') = Len(commits) + 1
            /\ SubSeq(commits', 1, Len(commits)) = commits
            /\ get_prompt_content(id, t)' = get_prompt_content(id, t)]_vars

\* a rollback to an older revision has just changed the working copy
C2_Witness ==
    /\ Len(commits) >= 4
    /\ made[Head_].op = "rollback"
    /\ LET id == made[Head_].id
       IN  /\ files[id] = Some(made[Head_].content)
           /\ TreeAt(Head_)[id] # TreeAt(Head_ - 1)[id]
           /\ TreeAt(Head_ - 1)[id] # None

\* C3: every successful save and every successful rollback appends exactly
\* one revision to history(id): afterwards history(id) is the returned hash
\* followed by the entries it had before, whatever content is written.
C3_AppendsOne ==
    [][\A id \in Ids :
        ((\E c \in Contents : SaveOk(id, c)) \/ (\E t \in Revs : RollbackOk(id, t)))
        => Hashes(history(id))' = <<Len(commits')>> \o Hashes(history(id))]_vars

\* C4: history is append-only: a revision that history(id) lists is listed
\* by every later history(id), also after a delete.
C4_HistoryGrows ==
    [][\A id \in Ids :
        Range(Hashes(history(id))) \subseteq Range(Hashes(history(id))')]_vars

\* C5: for every revision h returned by a save or rollback of id,
\* read(id, h) returns the content written by that call, in every later state.
C5_Immutable ==
    \A h \in Revs :
        made[h].op \in {"save", "rollback"}
        => get_prompt_content(made[h].id, h) = Ok(made[h].content)

\* C6: after a successful delete(id) of a prompt that had a working file,
\* exists(id) is false, read(id) fails with NotFound, and read(id, h) still
\* succeeds with the old content for the last revision before the delete and
\* for every earlier revision of id (the revisions a save or rollback of id
\* returned); no read at any revision changes.
C6_DeleteKeepsRevisions ==
    [][\A id \in Ids :
        DeleteOk(id) =>
            /\ ~file_exists(id)'
            /\ get_prompt_content(id, NoRev)' = NotFound
            /\ \A h \in Revs :
                  /\ get_prompt_content(id, h)' = get_prompt_content(id, h)
                  /\ (made[h].id = id /\ made[h].op \in {"save", "rollback"})
                     => get_prompt_content(id, h)'.status = "ok"]_vars

\* a delete has just removed a prompt that has an older content revision
C6_Witness ==
    /\ made[Head_].op = "delete"
    /\ LET id == made[Head_].id
       IN  /\ files[id] = None
           /\ \E h \in Revs : made[h].id = id /\ made[h].op = "save"
                               /\ TreeAt(h)[id] # None

\* C7: for existing revisions a and b, diff(id, a, b) is the literal
\* "No differences found" exactly when the content of id at a equals its
\* content at b; otherwise it is a non-empty diff of that prompt's path only.
C7_DiffSentinel ==
    \A id \in Ids, a \in Revs, b \in Revs :
        LET d == get_diff(id, a, b)
        IN  /\ (d = NoDifferences) <=> (TreeAt(a)[id] = TreeAt(b)[id])
            /\ d # NoDifferences =>
                  /\ d.changes # {}
                  /\ \A ch \in d.changes : ch.path = id

\* two revisions that differ in another prompt only, and two that differ in
\* this prompt
C7_Witness ==
    \E id \in Ids, a \in Revs, b \in Revs :
        /\ TreeAt(a)[id] = TreeAt(b)[id]
        /\ TreeAt(a)[id] # None
        /\ TreeAt(a) # TreeAt(b)
        /\ \E c \in Revs : get_diff(id, a, c) # NoDifferences

\* C8: a failed save leaves the working copy of id equal to the content of
\* the last successful revision and leaves history(id) unchanged.
C8_FailedSaveClean ==
    [][\A id \in Ids, c \in Contents :
        SaveFailed(id, c) =>
            /\ files'[id] = TreeAt(Head_)[id]
            /\ history(id)' = history(id)]_vars

\* C9: a save, rollback or delete on prompt A leaves read(B), read(B, h),
\* history(B) and exists(B) unchanged for every other prompt B, and
\* history(B) lists only revisions created by calls on B (never the
\* bootstrap revision).
C9_Independent ==
    [][\A A \in Ids : \A B \in Ids \ {A} :
        CallOn(A) =>
            /\ get_prompt_content(B, NoRev)' = get_prompt_content(B, NoRev)
            /\ \A h \in Revs : get_prompt_content(B, h)' = get_prompt_content(B, h)
            /\ history(B)' = history(B)
            /\ file_exists(B)' = file_exists(B)
            /\ \A h \in Range(Hashes(history(B))') : made'[h].id = B]_vars

\* ---------------------------------------------- the execution, as observed
Attempted(k) == \E f \in Range(fetched) : f.step = k

\* step k failed: no content, or no provider call that returned
Failed(k) ==
    \E f \in Range(fetched) :
        /\ f.step = k
        /\ \/ f.content = None
           \/ ~\E d \in Range(dispatched) : d.step = k /\ ~d.raises

\* what the provider returned for step k
Output(k) == (CHOOSE d \in Range(dispatched) : d.step = k /\ ~d.raises).val

FirstFailing(k) ==
    /\ Attempted(k)
    /\ Failed(k)
    /\ \A j \in 1..(k - 1) : Attempted(j) /\ ~Failed(j)

Content(k) == (CHOOSE f \in Range(fetched) : f.step = k).content

Dispatched(k) == \E d \in Range(dispatched) : d.step = k

Dispatch(k) == CHOOSE d \in Range(dispatched) : d.step = k

RECURSIVE ChainInput(_)
\* the output of the latest step before k that succeeded, else the initial input
ChainInput(k) ==
    IF k = 1 THEN Some(call.initial_input)
    ELSE IF Failed(k - 1) THEN ChainInput(k - 1)
    ELSE Output(k - 1)

OkSteps(rs) == {k \in 1..Len(rs) : rs[k].error = None}

Max(S) == CHOOSE x \in S : \A y \in S : y <= x

PlaceholderForms ==
    {"{{input}}", "{{INPUT}}", "{{Input}}",
     "{{previous_output}}", "{{PREVIOUS_OUTPUT}}", "{{Previous_Output}}"}

AnyCasePlaceholder(t) == \E k \in DOMAIN t : t[k] \in PlaceholderForms

RECURSIVE SubstAll(_, _)
\* t with every placeholder occurrence replaced by text `by`, nothing else changed
SubstAll(t, by) ==
    IF t = <<>> THEN <<>>
    ELSE (IF Head(t) \in PlaceholderForms THEN by ELSE <<Head(t)>>) \o SubstAll(Tail(t), by)

\* C14: placeholder substitution.  If the prompt text contains {{input}} or
\* {{previous_output}} in any letter case, the prompt dispatched to the
\* provider is the template with every placeholder occurrence replaced by
\* the current input and nothing else changed, for every current input.
C14_Substitution ==
    \A k \in 1..Len(fetched) :
        (Dispatched(k) /\ ChainInput(k) # None /\ AnyCasePlaceholder(Content(k)[1])) =>
            Dispatch(k).prompt = SubstAll(Content(k)[1], ChainInput(k)[1])

\* text s holds text a and, after it, text b
HoldsInOrder(s, a, b) ==
    \E i \in 1..(Len(s) + 1), j \in 1..(Len(s) + 1) :
        /\ i + Len(a) <= j
        /\ j + Len(b) - 1 <= Len(s)
        /\ SubSeq(s, i, i + Len(a) - 1) = a
        /\ SubSeq(s, j, j + Len(b) - 1) = b

\* C15: no-placeholder wrapping.  If the prompt text contains no placeholder
\* and the current input is a non-empty string (whitespace-only text
\* included), the dispatched prompt holds the literal input and, after it,
\* the literal template; if the current input is empty the template is
\* dispatched unmodified.
C15_Wrapping ==
    \A k \in 1..Len(fetched) :
        (Dispatched(k) /\ ChainInput(k) # None /\ ~AnyCasePlaceholder(Content(k)[1])) =>
            IF ChainInput(k)[1] = <<>>
            THEN Dispatch(k).prompt = Content(k)[1]
            ELSE HoldsInOrder(Dispatch(k).prompt, ChainInput(k)[1], Content(k)[1])

\* ------------------------------------------------------ routing, as observed
\* get_available_models() of the Gemini and the OpenRouter client, cut down
\* to the models of this universe
GeminiDeclared == {"gemini-2.5-flash"}

OpenRouterDeclared == {}

\* the configured clients whose own model list holds the model
ConfiguredDeclaring(model) ==
    (IF executor.gemini_client /\ model \in GeminiDeclared THEN {"gemini"} ELSE {})
    \cup (IF executor.openrouter_client /\ model \in OpenRouterDeclared
          THEN {"openrouter"} ELSE {})
    \cup {CustomNames[k] : k \in Declares(model)}

FirstCustom(model) == CustomNames[CHOOSE k \in Declares(model) : \A j \in Declares(model) : k <= j]

\* C16: provider routing.  A step whose content was found is dispatched to
\* one client, a configured client whose own declared model list contains
\* the model (the first such custom client, if it is a custom client); when
\* no configured client declares the model the step fails and no client is
\* called for it.
C16_Routing ==
    \A k \in 1..Len(fetched) :
        Content(k) # None =>
            IF ConfiguredDeclaring(call.model) = {}
            THEN Failed(k) /\ ~Dispatched(k) /\ results[k].error # None
            ELSE /\ Dispatched(k)
                 /\ \A d \in Range(dispatched) :
                        d.step = k =>
                            /\ d.client \in ConfiguredDeclaring(call.model)
                            /\ d.client \notin {"gemini", "openrouter"} =>
                                    d.client = FirstCustom(call.model)

BothDone == \A t \in Writers : threads[t].pc = "done"

\* the revision returned to thread t holds what t wrote, under t's name
HoldsOwn(t) ==
    /\ TreeAt(threads[t].ret)[threads[t].id] = Some(threads[t].content)
    /\ commits[threads[t].ret].author = AuthorOf(t)
    /\ commits[threads[t].ret].message = MessageOf(t)

\* C18: concurrent writers to the same prompt id are serialized.  After two
\* concurrent save(id, ...) calls the working copy is the content of the
\* newest revision in history(id), it is what one of the two callers wrote,
\* and the revision returned to each caller holds that caller's content and
\* message.
C18_SameIdSerialized ==
    (BothDone /\ threads["t1"].id = threads["t2"].id) =>
        LET id == threads["t1"].id
        IN /\ \E t \in Writers : files[id] = Some(threads[t].content)
           /\ history(id) # <<>>
           /\ files[id] = TreeAt(history(id)[1].commit_hash)[id]
           /\ \A t \in Writers : HoldsOwn(t)

\* C19: concurrent writers to different prompt ids do not affect each
\* other.  After concurrent save(A, ...) and save(B, ...) on a fresh
\* repository, the history of each prompt holds exactly one revision, the
\* one returned to its caller, with that caller's content, author and
\* message, and that revision does not record the other prompt's change.
C19_OtherIdsApart ==
    (BothDone /\ threads["t1"].id # threads["t2"].id) =>
        \A t \in Writers :
            LET id == threads[t].id
                h == threads[t].ret
            IN /\ Hashes(history(id)) = <<h>>
               /\ HoldsOwn(t)
               /\ \A other \in Ids \ {id} : TreeAt(h)[other] = ParentTree(h)[other]

C21_OneResultPerStep ==
    pc \in {"loop", "aggregate", "done"} =>
        /\ Len(results) = Len(fetched)
        /\ \A k \in 1..Len(results) : results[k].step = k
        /\ outcome # None => \A k \in 1..Len(outcome[1].results) : outcome[1].results[k].step = k

\* C22: the Version Store is authoritative for step content.  The content
\* fetched for a step is the store's working copy of the prompt whenever the
\* store has one, whatever it contains; the database row is used only when
\* the store has no working copy for the id.
C22_StoreAuthoritative ==
    \A k \in 1..Len(fetched) :
        LET id == fetched[k].prompt_id
        IN IF file_exists(id)
           THEN fetched[k].content = Some(Norm(files[id][1]))
           ELSE fetched[k].content = (IF Truthy(prompts[id]) THEN prompts[id] ELSE None)

\* C23: reads see committed content only.  A read(id) made while a save of
\* the same prompt is in flight returns, when it returns content, the
\* content of a revision already committed for id.
C23_ReadsCommitted ==
    [][Len(fetched') > Len(fetched) =>
        LET f == fetched'[Len(fetched')]
        IN f.content # None =>
            \E h \in 1..Len(commits) :
                /\ TreeAt(h)[f.prompt_id] # None
                /\ Norm(TreeAt(h)[f.prompt_id][1]) = f.content[1]]_vars

\* C24: reads fail with NotFound and change nothing.  A read(id) without a
\* revision raises NotFound when id has no working file; a read(id, r)
\* raises NotFound when id has no file in revision r; and no read, whether
\* it returns or raises, changes a working file, a history or an exists
\* result.
C24_ReadNotFound ==
    [][fetched' # fetched =>
        LET f == fetched'[1]
        IN /\ (f.rev = NoRev /\ ~file_exists(f.prompt_id)) => f.status = "NotFound"
           /\ (ValidRev(f.rev) /\ TreeAt(f.rev)[f.prompt_id] = None) => f.status = "NotFound"
           /\ files' = files
           /\ \A id \in Ids : /\ history(id)' = history(id)
                              /\ file_exists(id)' = file_exists(id)]_vars

\* the latest read asked for a prompt at a revision in which it had no file,
\* while its working file exists, and raised NotFound
C24_Witness ==
    /\ fetched # <<>>
    /\ ValidRev(fetched[1].rev)
    /\ TreeAt(fetched[1].rev)[fetched[1].prompt_id] = None
    /\ file_exists(fetched[1].prompt_id)
    /\ fetched[1].status = "NotFound"
    /\ Len(commits) >= 3

\* C25: a diff against a revision that does not exist fails.  diff(id, a, b)
\* with a or b not an existing revision raises an error to the caller: it
\* returns neither a diff nor the "No differences found" sentinel.
C25_DiffUnknownRevision ==
    \A id \in Ids, a \in 1..(Len(commits) + 1), b \in 1..(Len(commits) + 1) :
        (~ValidRev(a) \/ ~ValidRev(b)) =>
            /\ get_diff(id, a, b) # NoDifferences
            /\ get_diff(id, a, b).text # "diff"

\* C26: the Workflow Definition's invariant.  After any sequence of
\* add-prompt, remove-prompt and reorder operations the stored prompt
\* sequence holds no prompt id twice and only ids of prompts associated with
\* the workspace (so a removed association's id is gone from the sequence).
C26_SequenceInvariant ==
    /\ \A i \in 1..Len(prompt_sequence), j \in 1..Len(prompt_sequence) :
            prompt_sequence[i] = prompt_sequence[j] => i = j
    /\ Range(prompt_sequence) \subseteq Range(prompt_associations)

\* C27: the executor reads the Workflow Definition only.  Whatever the
\* workspace holds (an empty stored sequence beside associations included),
\* no step of an execution changes the stored prompt sequence or the
\* associations.
C27_DefinitionReadOnly ==
    [][/\ prompt_sequence' = prompt_sequence
       /\ prompt_associations' = prompt_associations]_vars

\* C28: concurrent executions are independent.  The Step Results an
\* execute() call returns are exactly the results of the steps that call
\* ran, whatever another execute() call on the same executor object does
\* meanwhile.
C28_OwnResults ==
    \A t \in Writers :
        (threads[t].pc = "done" /\ threads[t].sequence # <<>>) =>
            threads[t].ret = threads[t].own

\* C29: a Step Result has an output or an error, never both, never
\* neither.  Whatever the provider client returns, a result without an error
\* carries an output text and a result with an error has no output.
C29_OutputXorError ==
    \A k \in 1..Len(results) :
        (results[k].error = None) <=> (results[k].output # None)

\* C30: the streaming path is equivalent to execute().  For the same
\* workspace, initial input, model, stop_on_error and provider behaviour the
\* streaming route reports the same Step Results in the same order (same
\* input, output and presence of an error step by step), the same success
\* flag, final output and completed and total step counts as execute().
C30_StreamEquivalent ==
    (pc = "done" /\ sequence # <<>> /\ threads.pc = "done") =>
        LET o == outcome[1]
            s == threads.completion[1]
        IN /\ Len(s.results) = Len(o.results)
           /\ \A k \in 1..Len(o.results) :
                /\ k <= Len(s.results)
                /\ s.results[k].step = o.results[k].step
                /\ s.results[k].input = o.results[k].input
                /\ s.results[k].output = o.results[k].output
                /\ (s.results[k].error = None) <=> (o.results[k].error = None)
           /\ s.success = o.success
           /\ s.final_output = o.final_output
           /\ s.completed_steps = Len(successful_results(o.results))
           /\ s.total_steps = Len(sequence)
====
